---- MODULE Spec2Model ----
(***************************************************************************)
(* Model of theanets/recurrent.py: the minibatch windowing sampler         *)
(* batches(samples, labels, steps, batch_size) and the two closures it     *)
(* returns, unlabeled_sample and labeled_sample.                           *)
(*                                                                         *)
(* A dataset is a sequence of frames (rows), a frame a sequence of         *)
(* numbers (columns).  Python index k is TLA+ index k + 1.  A numpy array  *)
(* of rank 3 is a record [shape, data] with data[t][i][c].                 *)
(* The random source is a tape of raw words; randint reads the word at the *)
(* current position and reduces it to the requested range.  A run of the   *)
(* program has its own tape position, heap and list of call outcomes; the  *)
(* runs of the set active start from the same random-source state, that   *)
(* is, they read the same tape.                                            *)
(***************************************************************************)
EXTENDS Integers, Sequences, FiniteSets, TLC

\* ---- bounds of the model ----
MaxN == 4        \* longest dataset
MaxDim == 2      \* widest frame
MaxBatch == 2    \* largest batch_size
MaxCalls == 2    \* calls of the generator per run
MaxRaw == 1      \* largest raw word of the random tape
MaxTape == 4     \* words of the random tape a run may consume

Runs == {"runA", "runB"}
\* labels=None; every label dataset of the model has at least one row
None == <<>>
RawVals == 0..MaxRaw

VARIABLES samples, labels, steps, batch_size, sampler,
          tape, rngPos, heap, returned, active

vars == <<samples, labels, steps, batch_size, sampler,
          tape, rngPos, heap, returned, active>>

Max(a, b) == IF a >= b THEN a ELSE b
Min(a, b) == IF a <= b THEN a ELSE b

\* ---- input datasets: frame k carries the positional marker base + k ----
Dataset(n, d, base) == [k \in 1..n |-> [c \in 1..d |-> base + k]]

Dims == {1, MaxDim}
SampleSets == {Dataset(n, d, 0) : n \in 1..MaxN, d \in Dims}
LabelSets == {Dataset(n, d, 10) : n \in 1..(MaxN + 1), d \in Dims}

\* len(samples), samples.shape[1], labels.shape[1]
N == Len(samples)
SampleDim == Len(samples[1])
LabelDim == Len(labels[1])

\* ---- numpy primitives ----

\* np.zeros(shape, FLOAT): a negative dimension raises ValueError
Zeros(shape) ==
  IF shape[1] < 0 \/ shape[2] < 0 \/ shape[3] < 0
  THEN [ok |-> FALSE, arr |-> [shape |-> shape, data |-> <<>>]]
  ELSE [ok |-> TRUE,
        arr |-> [shape |-> shape,
                 data |-> [t \in 1..shape[1] |->
                            [i \in 1..shape[2] |->
                              [c \in 1..shape[3] |-> 0]]]]]

\* Python slice index normalisation
NormIndex(idx, len) ==
  IF idx < 0 THEN Max(idx + len, 0) ELSE Min(idx, len)

\* a[lo:hi] on the first axis
Slice(a, lo, hi) ==
  LET l == NormIndex(lo, Len(a))
      h == NormIndex(hi, Len(a))
  IN [k \in 1..Max(h - l, 0) |-> a[l + k]]

\* variants of randint: inclusive upper bound; empty range clamped to 0;
\* stream not advanced
RandintInclusive(n, tp, pos) ==
  IF n <= 0 THEN [ok |-> FALSE, val |-> 0, pos |-> pos]
  ELSE [ok |-> TRUE, val |-> tp[pos + 1] % (n + 1), pos |-> pos + 1]

RandintClamped(n, tp, pos) ==
  IF n <= 0 THEN [ok |-> TRUE, val |-> 0, pos |-> pos]
  ELSE [ok |-> TRUE, val |-> tp[pos + 1] % n, pos |-> pos + 1]

RandintNoAdvance(n, tp, pos) ==
  IF n <= 0 THEN [ok |-> FALSE, val |-> 0, pos |-> pos]
  ELSE [ok |-> TRUE, val |-> tp[pos + 1] % n, pos |-> pos]

\* rng.randint(n): an integer of [0, n); ValueError when the range is empty
Randint(n, tp, pos) ==
  IF n <= 0 THEN [ok |-> FALSE, val |-> 0, pos |-> pos]
  ELSE [ok |-> TRUE, val |-> tp[pos + 1] % n, pos |-> pos + 1]

\* arr[:, i, :] = win, where win has Len(win) rows of cols columns;
\* numpy broadcasts an axis of length 1 and raises ValueError otherwise
CanAssign(arr, win, cols) ==
  /\ Len(win) = arr.shape[1] \/ Len(win) = 1
  /\ cols = arr.shape[3] \/ cols = 1

\* variant: the window lands one slot too far
AssignNextSlot(arr, i, win, cols) ==
  [arr EXCEPT !.data =
    [t \in 1..arr.shape[1] |->
      [s \in 1..arr.shape[2] |->
        IF s = Min(i + 2, arr.shape[2])
        THEN [c \in 1..arr.shape[3] |->
               win[IF Len(win) = 1 THEN 1 ELSE t][IF cols = 1 THEN 1 ELSE c]]
        ELSE arr.data[t][s]]]]

AssignSlot(arr, i, win, cols) ==
  [arr EXCEPT !.data =
    [t \in 1..arr.shape[1] |->
      [s \in 1..arr.shape[2] |->
        IF s = i + 1
        THEN [c \in 1..arr.shape[3] |->
               win[IF Len(win) = 1 THEN 1 ELSE t][IF cols = 1 THEN 1 ELSE c]]
        ELSE arr.data[t][s]]]]

\* ---- heap of one run: arrays by reference ----
\* variant: one cached buffer instead of a fresh allocation
CachedRef(h) == 1

NewRef(h) == Len(h) + 1

Store(h, ref, arr) ==
  IF ref = Len(h) + 1 THEN Append(h, arr) ELSE [h EXCEPT ![ref] = arr]

\* ---- the shapes the closures allocate ----
XsShape == <<steps, batch_size, SampleDim>>

\* variant: ys allocated with samples.shape[1]
YsShapeOfSamples == <<steps, batch_size, SampleDim>>

YsShape == <<steps, batch_size, LabelDim>>

\* ---- the windows the loop bodies copy ----
\* variants: windows taken one frame later
SampleWindowNext(j) == Slice(samples, j + 1, j + 1 + steps)

SampleWindow(j) == Slice(samples, j, j + steps)

LabelWindowNext(j) == Slice(labels, j + 1, j + 1 + steps)

LabelWindow(j) == Slice(labels, j, j + steps)

\* ---- unlabeled_sample: the for loop from slot i on ----
RECURSIVE UnlabeledLoop(_, _, _, _, _)
UnlabeledLoop(i, xs, tp, pos, js) ==
  IF i >= batch_size
  THEN [kind |-> "ok", by |-> "return", arrs |-> <<xs>>, pos |-> pos, js |-> js]
  ELSE LET d == Randint(N - steps, tp, pos)
       IN IF ~d.ok
          THEN [kind |-> "ValueError", by |-> "randint", arrs |-> <<>>,
                pos |-> d.pos, js |-> js]
          ELSE LET win == SampleWindow(d.val)
               IN IF ~CanAssign(xs, win, SampleDim)
                  THEN [kind |-> "ValueError", by |-> "assign", arrs |-> <<>>,
                        pos |-> d.pos, js |-> Append(js, d.val)]
                  ELSE UnlabeledLoop(i + 1, AssignSlot(xs, i, win, SampleDim),
                                     tp, d.pos, Append(js, d.val))

UnlabeledBody(tp, pos) ==
  LET z == Zeros(XsShape)
  IN IF ~z.ok
     THEN [kind |-> "ValueError", by |-> "zeros", arrs |-> <<>>,
           pos |-> pos, js |-> <<>>]
     ELSE UnlabeledLoop(0, z.arr, tp, pos, <<>>)

\* ---- labeled_sample: the for loop from slot i on ----
RECURSIVE LabeledLoop(_, _, _, _, _, _)
LabeledLoop(i, xs, ys, tp, pos, js) ==
  IF i >= batch_size
  THEN [kind |-> "ok", by |-> "return", arrs |-> <<xs, ys>>, pos |-> pos, js |-> js]
  ELSE LET d == Randint(N - steps, tp, pos)
       IN IF ~d.ok
          THEN [kind |-> "ValueError", by |-> "randint", arrs |-> <<>>,
                pos |-> d.pos, js |-> js]
          ELSE LET win == SampleWindow(d.val)
                   lwin == LabelWindow(d.val)
               IN IF \/ ~CanAssign(xs, win, SampleDim)
                     \/ ~CanAssign(ys, lwin, LabelDim)
                  THEN [kind |-> "ValueError", by |-> "assign", arrs |-> <<>>,
                        pos |-> d.pos, js |-> Append(js, d.val)]
                  ELSE LabeledLoop(i + 1,
                                   AssignSlot(xs, i, win, SampleDim),
                                   AssignSlot(ys, i, lwin, LabelDim),
                                   tp, d.pos, Append(js, d.val))

LabeledBody(tp, pos) ==
  LET zx == Zeros(XsShape)
      zy == Zeros(YsShape)
  IN IF ~zx.ok \/ ~zy.ok
     THEN [kind |-> "ValueError", by |-> "zeros", arrs |-> <<>>,
           pos |-> pos, js |-> <<>>]
     ELSE LabeledLoop(0, zx.arr, zy.arr, tp, pos, <<>>)

\* ---- batches: the closure it returns ----
Batches(lab) == IF lab = None THEN "unlabeled_sample" ELSE "labeled_sample"

\* ---- one call of the generator by run r ----
RECURSIVE StoreAll(_, _)
StoreAll(h, arrs) ==
  IF arrs = <<>> THEN h
  ELSE StoreAll(Store(h, NewRef(h), Head(arrs)), Tail(arrs))

RECURSIVE RefsOf(_, _)
RefsOf(h, arrs) ==
  IF arrs = <<>> THEN <<>>
  ELSE <<NewRef(h)>> \o RefsOf(Store(h, NewRef(h), Head(arrs)), Tail(arrs))

\* raw words the call may read beyond the words already on the tape
Need(r) == Max(rngPos[r] + Max(batch_size, 0) - Len(tape), 0)

Finish(r, tp, res) ==
  /\ tape' = SubSeq(tp, 1, Max(Len(tape), res.pos))
  /\ rngPos' = [rngPos EXCEPT ![r] = res.pos]
  /\ heap' = [heap EXCEPT ![r] = StoreAll(heap[r], res.arrs)]
  /\ returned' = [returned EXCEPT ![r] =
                    Append(returned[r],
                           [kind |-> res.kind, by |-> res.by,
                            refs |-> RefsOf(heap[r], res.arrs),
                            js |-> res.js])]
  /\ UNCHANGED <<samples, labels, steps, batch_size, sampler, active>>

UnlabeledSample(r) ==
  /\ sampler = "unlabeled_sample"
  /\ Len(returned[r]) < MaxCalls
  /\ rngPos[r] + Max(batch_size, 0) <= MaxTape
  /\ \E ext \in [1..Need(r) -> RawVals] :
       Finish(r, tape \o ext, UnlabeledBody(tape \o ext, rngPos[r]))

LabeledSample(r) ==
  /\ sampler = "labeled_sample"
  /\ Len(returned[r]) < MaxCalls
  /\ rngPos[r] + Max(batch_size, 0) <= MaxTape
  /\ \E ext \in [1..Need(r) -> RawVals] :
       Finish(r, tape \o ext, LabeledBody(tape \o ext, rngPos[r]))

\* the state after batches(samples, labels, steps, batch_size) returned
Constructed ==
  /\ steps \in (-1)..(MaxN + 1)
  /\ batch_size \in (-1)..MaxBatch
  /\ sampler = Batches(labels)
  /\ tape = <<>>
  /\ rngPos = [r \in Runs |-> 0]
  /\ heap = [r \in Runs |-> <<>>]
  /\ returned = [r \in Runs |-> <<>>]

\* one run of the program, on every dataset of the bounds
Init ==
  /\ samples \in SampleSets
  /\ labels \in {None} \cup LabelSets
  /\ active = {"runA"}
  /\ Constructed

\* two runs of the program on the same inputs, from the same random-source
\* state; labels as wide as samples and at most one frame shorter or longer
InitPair ==
  /\ samples \in SampleSets
  /\ labels \in {None} \cup
       {l \in LabelSets : /\ Len(l[1]) = Len(samples[1])
                         /\ Len(l) \in (Len(samples) - 1)..(Len(samples) + 1)}
  /\ active = Runs
  /\ Constructed

Next ==
  \/ \E r \in active : UnlabeledSample(r)
  \/ \E r \in active : LabeledSample(r)

Spec == Init /\ [][Next]_vars

SpecPair == InitPair /\ [][Next]_vars

\* ---- vocabulary of the properties ----
Calls(r) == 1..Len(returned[r])
OkCalls(r) == {k \in Calls(r) : returned[r][k].kind = "ok"}
Xs(r, k) == heap[r][returned[r][k].refs[1]]
Ys(r, k) == heap[r][returned[r][k].refs[2]]
Slots == 1..batch_size
Times == 1..steps

WindowOK == steps > 0 /\ steps < N
ValidArgs == WindowOK /\ batch_size > 0
Aligned == labels = None \/ Len(labels) = N

\* slot i of array a holds the rows seq[j+1..j+steps] (Python seq[j:j+steps])
HoldsWindow(a, i, seq, j) ==
  /\ j + steps <= Len(seq)
  /\ \A t \in Times : a.data[t][i] = seq[j + t]

\* C1: with 0 < steps < N every offset j drawn by any call of any run lies
\* in [0, N - steps), so 0 <= j <= N - steps, j + steps <= N and the window
\* samples[j : j+steps] has its full steps rows.
C1_OffsetInRange ==
  WindowOK =>
    \A r \in active : \A k \in Calls(r) :
      \A s \in 1..Len(returned[r][k].js) :
        LET j == returned[r][k].js[s]
        IN /\ 0 <= j /\ j < N - steps
           /\ j <= N - steps
           /\ j + steps <= N
           /\ Len(SampleWindow(j)) = steps

C1_Witness ==
  /\ WindowOK /\ N - steps >= 2 /\ batch_size = 2
  /\ \E r \in active : \E k \in OkCalls(r) :
       returned[r][k].js = <<N - steps - 1, 0>>

\* C2: for valid inputs every slot of every returned data array holds one
\* contiguous window of the dataset: some offset j with xs[t, i, :] =
\* samples[j + t] for every t; the offset is the one drawn for the slot.
C2_SlotIsWindow ==
  ValidArgs =>
    \A r \in active : \A k \in OkCalls(r) : \A i \in Slots :
      /\ \E j \in 0..(N - steps) : HoldsWindow(Xs(r, k), i, samples, j)
      /\ HoldsWindow(Xs(r, k), i, samples, returned[r][k].js[i])

C2_Witness ==
  /\ ValidArgs /\ steps = 2 /\ batch_size = 2
  /\ \E r \in active : \E k \in OkCalls(r) :
       /\ returned[r][k].js[1] # returned[r][k].js[2]
       /\ HoldsWindow(Xs(r, k), 2, samples, 1)

\* C3: in labeled sampling with len(labels) = len(samples) and
\* 0 < steps < N, every slot of every returned pair holds the data window
\* and the label window of one and the same offset j, and a call makes
\* exactly one draw per slot.
C3_SameOffset ==
  (labels # None /\ Len(labels) = N /\ WindowOK) =>
    \A r \in active :
      /\ \A k \in OkCalls(r) :
           /\ Len(returned[r][k].js) = Max(batch_size, 0)
           /\ \A i \in Slots :
                \E j \in 0..(N - steps) :
                  /\ HoldsWindow(Xs(r, k), i, samples, j)
                  /\ HoldsWindow(Ys(r, k), i, labels, j)
      /\ rngPos[r] = Max(batch_size, 0) * Cardinality(OkCalls(r))

C3_Witness ==
  /\ labels # None /\ Len(labels) = N /\ WindowOK /\ batch_size = 2
  /\ \E r \in active : \E k \in OkCalls(r) :
       /\ returned[r][k].js = <<0, 1>>
       /\ HoldsWindow(Ys(r, k), 2, labels, 1)

\* the array has exactly the rows, slots and columns of its shape
WellShaped(a, shape) ==
  /\ a.shape = shape
  /\ DOMAIN a.data = 1..shape[1]
  /\ \A t \in 1..shape[1] :
       /\ DOMAIN a.data[t] = 1..shape[2]
       /\ \A i \in 1..shape[2] : DOMAIN a.data[t][i] = 1..shape[3]

\* C4: for valid inputs every result is [xs] with xs of shape
\* (steps, batch_size, D) when labels is None, and [xs, ys] with ys of
\* shape (steps, batch_size, L) when labels is supplied.
C4_ResultShape ==
  ValidArgs =>
    \A r \in active : \A k \in OkCalls(r) :
      /\ Len(returned[r][k].refs) = IF labels = None THEN 1 ELSE 2
      /\ WellShaped(Xs(r, k), <<steps, batch_size, Len(samples[1])>>)
      /\ labels # None =>
           WellShaped(Ys(r, k), <<steps, batch_size, Len(labels[1])>>)

C4_Witness ==
  /\ ValidArgs /\ labels # None
  /\ Len(labels[1]) = 1 /\ Len(samples[1]) = 2
  /\ \E r \in active : OkCalls(r) # {}

C6_NonPositiveRaises ==
  (steps <= 0 \/ batch_size <= 0) =>
    \A r \in active : OkCalls(r) = {}

\* C7: when labels is supplied with len(labels) # len(samples) no call
\* returns a batch: every call raises.
C7_MismatchRaises ==
  (labels # None /\ Len(labels) # N) =>
    \A r \in active : OkCalls(r) = {}

\* references returned by the calls of run r, in order
RECURSIVE RefsUpTo(_, _)
RefsUpTo(r, k) ==
  IF k = 0 THEN <<>> ELSE RefsUpTo(r, k - 1) \o returned[r][k].refs

NoAlias(r) ==
  LET refs == RefsUpTo(r, Len(returned[r]))
  IN /\ \A a, b \in 1..Len(refs) : a # b => refs[a] # refs[b]
     /\ \A a \in 1..Len(refs) : refs[a] \in 1..Len(heap[r])

FrameStep ==
  /\ samples' = samples /\ labels' = labels
  /\ steps' = steps /\ batch_size' = batch_size /\ sampler' = sampler
  /\ active' = active
  /\ \A r \in active :
       /\ \A ref \in 1..Len(heap[r]) :
            /\ ref \in 1..Len(heap'[r])
            /\ heap'[r][ref] = heap[r][ref]
       /\ \A k \in Calls(r) : returned'[r][k] = returned[r][k]

\* C8: a call changes none of samples, labels, steps, batch_size; it
\* leaves every array returned earlier as it was; the arrays of all calls
\* are pairwise distinct; and on valid inputs every call, after any number
\* of earlier calls, succeeds.
C8_Stateless ==
  /\ [][FrameStep]_vars
  /\ [](\A r \in active :
          /\ NoAlias(r)
          /\ (ValidArgs /\ Aligned) => OkCalls(r) = Calls(r))

C8_Witness ==
  /\ ValidArgs /\ labels # None /\ Len(labels) = N
  /\ \E r \in active :
       /\ Len(returned[r]) = MaxCalls /\ OkCalls(r) = Calls(r)
       /\ Len(heap[r]) = 2 * MaxCalls
       /\ Xs(r, 1) # Xs(r, 2)

\* what call k of run r returned, by value
Outcome(r, k) ==
  [kind |-> returned[r][k].kind,
   js |-> returned[r][k].js,
   arrs |-> [m \in 1..Len(returned[r][k].refs) |->
              heap[r][returned[r][k].refs[m]]]]

\* C9: two runs from the same random-source state and the same inputs
\* return identical outcomes call by call; on valid inputs slot i of call k
\* uses the word (k-1)*batch_size + i of the random stream, one word per
\* slot in slot order, and holds the window of that offset.
C9_Deterministic ==
  /\ \A r, q \in active :
       \A k \in Calls(r) \cap Calls(q) : Outcome(r, k) = Outcome(q, k)
  /\ (ValidArgs /\ Aligned) =>
       \A r \in active :
         /\ rngPos[r] = batch_size * Len(returned[r])
         /\ \A k \in OkCalls(r) : \A i \in Slots :
              LET j == tape[(k - 1) * batch_size + i] % (N - steps)
              IN /\ returned[r][k].js[i] = j
                 /\ HoldsWindow(Xs(r, k), i, samples, j)

C9_Witness ==
  /\ active = Runs
  /\ ValidArgs /\ batch_size = 2 /\ N - steps = 2
  /\ \A r \in active : Len(returned[r]) >= 2
  /\ Len(tape) >= 4 /\ SubSeq(tape, 1, 4) = <<1, 0, 0, 1>>
  /\ \A r \in active : returned[r][2].js = <<0, 1>>

\* C10: for valid inputs the last frame samples[N-1] appears in no
\* returned data array and, with aligned labels, labels[N-1] in no returned
\* label array: the offset N - steps of the last full window is never
\* drawn.
C10_LastFrameNeverSampled ==
  ValidArgs =>
    \A r \in active : \A k \in OkCalls(r) :
      /\ \A s \in 1..Len(returned[r][k].js) :
           returned[r][k].js[s] # N - steps
      /\ \A i \in Slots : \A t \in Times :
           /\ Xs(r, k).data[t][i] # samples[N]
           /\ (labels # None /\ Len(labels) = N) =>
                Ys(r, k).data[t][i] # labels[N]
      /\ Len(SampleWindow(N - steps)) = steps

C10_Witness ==
  /\ ValidArgs /\ steps = 2 /\ N - steps = 2
  /\ \E r \in active : \E k \in OkCalls(r) : \E i \in Slots :
       /\ returned[r][k].js[i] = N - steps - 1
       /\ Xs(r, k).data[steps][i] = samples[N - 1]

====
